---- MODULE Spec2Model ----
(***************************************************************************)
(* Crash-video recording protocol of the Sentry Unreal plugin:             *)
(* USentryCrashVideoHandler (the Recording Session Controller with its     *)
(* Metadata Journal, Recovery Scanner, Retention Manager and Attachment    *)
(* Bridge) driven against the RuntimeVideoRecorder and the Sentry          *)
(* subsystem, which are modelled as small environment state machines.      *)
(***************************************************************************)
EXTENDS Integers, Sequences, FiniteSets, TLC

(* ------------------------------ bounds --------------------------------- *)

\* Largest value of the wall clock (seconds); file names carry the second.
MaxTime == 1

\* Most attachments the Reporter scope is followed for.
MaxAttachments == 2

\* The videos of earlier processes carry the time stamps -MaxAge .. -1.
MaxAge == 2

(* ------------------------- program constants --------------------------- *)

MinLastSeconds == 5
MaxLastSeconds == 600
MinTargetFPS == 10
MaxTargetFPS == 120
MinQualityPreset == 0
MaxQualityPreset == 100
MinBitrate == 2000000
MaxBitrate == 10000000
DefaultLastSeconds == 30
DefaultTargetFPS == 30
DefaultQualityPreset == 50
DefaultMaxVideosToKeep == 10
MinVideosToKeep == 1

(* ------------------------------ inputs --------------------------------- *)

\* The handler objects of the process (NewObject<USentryCrashVideoHandler>).
Handlers == {"A", "B"}

Times == 0..MaxTime

\* The seconds before the process started.
OldTimes == (0 - MaxAge)..(0 - 1)

\* FCrashVideoConfig values handed to Start: the fields Start clamps.
\* Width, Height, bRecordUI and bEnableAudio are passed through unread.
DefaultConfig ==
    [LastSecondsToRecord |-> DefaultLastSeconds,
     TargetFPS |-> DefaultTargetFPS,
     QualityPreset |-> DefaultQualityPreset]

\* The configs Start is tried with: every field below, at, between and above
\* the ends of its range, and every quality preset with the other two fields
\* at their defaults.
ConfigInputs ==
    [LastSecondsToRecord :
         {MinLastSeconds - 1, MinLastSeconds, MaxLastSeconds, MaxLastSeconds + 1},
     TargetFPS :
         {MinTargetFPS - 1, MinTargetFPS, MaxTargetFPS, MaxTargetFPS + 1},
     QualityPreset :
         {MinQualityPreset - 1, MinQualityPreset, MaxQualityPreset,
          MaxQualityPreset + 1}]
    \cup {[DefaultConfig EXCEPT !.QualityPreset = q] :
              q \in MinQualityPreset..MaxQualityPreset}

\* Arguments of SetMaxVideosToKeep.
MaxVideosInputs == {0 - 1, 0, 1, 2}

(* ------------------------------- paths --------------------------------- *)

\* A path is its directory, the time stamp in its file name, the chain of
\* extensions after the stem, and whether it is in absolute form.
EmptyPath == [dir |-> "", ts |-> 0, ext |-> << >>, abs |-> FALSE]

IsEmpty(p) == p = EmptyPath

GetCrashVideoDirectory == "SentryCrashVideos"

\* crash_video_<timestamp>.mp4 under the crash video directory
GenerateVideoFilename(t) ==
    [dir |-> GetCrashVideoDirectory, ts |-> t, ext |-> <<".mp4">>, abs |-> FALSE]

\* FPaths::ConvertRelativePathToFull
ConvertRelativePathToFull(p) ==
    IF IsEmpty(p) THEN p ELSE [p EXCEPT !.abs = TRUE]

\* FPaths::GetBaseFilename + ".meta": the last extension is replaced.
MetaPathOf(p) ==
    [p EXCEPT !.ext = IF Len(p.ext) = 0 THEN <<".meta">>
                      ELSE SubSeq(p.ext, 1, Len(p.ext) - 1) \o <<".meta">>]

\* CrashVideoPath + "_crash_recovery.mp4"
CrashRecoveryPathOf(p) ==
    IF IsEmpty(p)
    THEN [dir |-> "", ts |-> 0, ext |-> <<"_crash_recovery.mp4">>, abs |-> FALSE]
    ELSE [p EXCEPT !.ext = p.ext \o <<"_crash_recovery.mp4">>]

\* The path some other user of the Recorder records to.
UnrelatedPath == [dir |-> "Movies", ts |-> 0, ext |-> <<".mp4">>, abs |-> TRUE]

\* The platform file system resolves both forms of a path to one file.
FileKey(p) == ConvertRelativePathToFull(p)

SessionVideoFiles == {FileKey(GenerateVideoFilename(t)) : t \in Times}
CrashRecoveryFiles == {CrashRecoveryPathOf(p) : p \in SessionVideoFiles}
OlderVideoFiles == {FileKey(GenerateVideoFilename(t)) : t \in OldTimes}
VideoFiles ==
    SessionVideoFiles \cup OlderVideoFiles \cup CrashRecoveryFiles
        \cup {UnrelatedPath}
MetaFiles == {MetaPathOf(p) : p \in SessionVideoFiles}

\* FindFilesRecursively(..., ".mp4") / (..., ".meta"): a match on the end of
\* the file name, under the crash video directory.
EndsWith(p, e) ==
    /\ Len(p.ext) > 0
    /\ \/ p.ext[Len(p.ext)] = e
       \/ e = ".mp4" /\ p.ext[Len(p.ext)] = "_crash_recovery.mp4"

InCrashVideoDirectory(p) == p.dir = GetCrashVideoDirectory

(* ------------------------------- state --------------------------------- *)

VARIABLES
    handler,          \* per handler object: the members of the class
    recorder,         \* RuntimeVideoRecorder: active, and the path it writes
    recorderPresent,  \* GetEngineSubsystem<URuntimeVideoRecorder>() # null
    sentry,           \* USentrySubsystem: "missing", "disabled", "enabled"
    attachments,      \* attachments added to the Sentry scope, in order
    dirExists,        \* the crash video directory exists
    files,            \* video files: FileKey -> [size, mtime]
    meta,             \* journal files: FileKey -> entry, or NoEntry
    now,              \* FDateTime::Now(), in seconds
    lastOp            \* what the last operation did (observation only)

vars == <<handler, recorder, recorderPresent, sentry, attachments, dirExists,
          files, meta, now, lastOp>>

NoFile == [size |-> "absent", mtime |-> 0]

NoEntry == [Status |-> "<no file>", VideoPath |-> EmptyPath,
            CrashVideoPath |-> EmptyPath]

DefaultHandler ==
    [live |-> TRUE,
     bIsRecording |-> FALSE,
     bCrashDetected |-> FALSE,
     CurrentSessionVideoPath |-> EmptyPath,
     CurrentConfig |-> DefaultConfig,
     MaxVideosToKeep |-> DefaultMaxVideosToKeep]

\* A handler object that does not exist (not yet created, or destroyed).
NoHandler == [DefaultHandler EXCEPT !.live = FALSE]

\* The observation of one operation, filled in as the operation runs.
\* What the Recorder is handed by a start: nothing yet.
NoArgs == [TargetFPS |-> 0, LastSecondsToRecord |-> 0, VideoBitrate |-> 0]

NewOp(name, h) ==
    [name |-> name, h |-> h, ok |-> FALSE, path |-> EmptyPath,
     wasRecording |-> FALSE, crashFlag |-> FALSE,
     Config |-> DefaultConfig, MaxVideos |-> 0, args |-> NoArgs,
     calls |-> << >>, scanned |-> {}, entries |-> {}, deleted |-> {},
     faulted |-> {}]

FileExists(f, p) ==
    /\ FileKey(p) \in DOMAIN f
    /\ f[FileKey(p)].size # "absent"

MetaExists(m, p) ==
    /\ FileKey(p) \in DOMAIN m
    /\ m[FileKey(p)] # NoEntry

(* --------------------------- the world record --------------------------- *)

\* The part of the state an operation of a handler reads and writes, passed
\* through the calls the operation makes.
World ==
    [handler |-> handler, recorder |-> recorder, files |-> files,
     meta |-> meta, dirExists |-> dirExists, attachments |-> attachments,
     op |-> lastOp]

\* A file system fault: the operation `kind` on file `path` fails.
Fault(kind, p) == [kind |-> kind, path |-> FileKey(p)]

Fails(bad, kind, p) == Fault(kind, p) \in bad

\* The fault sets an operation is run under: none, or one failing call.
FaultInputs ==
    {{}} \cup {{Fault("delete", p)} : p \in MetaFiles \cup VideoFiles}
         \cup {{Fault("read", p)} : p \in MetaFiles}
         \cup {{Fault("write", p)} : p \in MetaFiles}

\* IPlatformFile::DeleteFile on a video file.
DeleteVideoFile(w, p, bad) ==
    IF ~FileExists(w.files, p)
    THEN w
    ELSE IF Fails(bad, "delete", p)
    THEN [w EXCEPT !.op.faulted = @ \cup {Fault("delete", p)}]
    ELSE [w EXCEPT !.files[FileKey(p)] = NoFile,
                   !.op.deleted = @ \cup {FileKey(p)}]

\* IPlatformFile::DeleteFile on a journal file.
DeleteMetaFile(w, p, bad) ==
    IF ~MetaExists(w.meta, p)
    THEN w
    ELSE IF Fails(bad, "delete", p)
    THEN [w EXCEPT !.op.faulted = @ \cup {Fault("delete", p)}]
    ELSE [w EXCEPT !.meta[FileKey(p)] = NoEntry,
                   !.op.deleted = @ \cup {FileKey(p)}]

(* ----------------------- the Recorder capability ------------------------ *)

\* What a stop leaves at the Recorder's path: a video with content, an empty
\* file, or nothing yet (the flush has not completed).
FlushOutcomes == {"data", "empty", "none"}

\* URuntimeVideoRecorder::StopRecording_NativeAPI
RecorderStop(w, flush) ==
    LET k == FileKey(w.recorder.path)
        f == IF flush # "none" /\ k \in DOMAIN w.files
             THEN [w.files EXCEPT ![k] = [size |-> flush, mtime |-> now]]
             ELSE w.files
    IN  [w EXCEPT !.recorder.active = FALSE,
                  !.files = f,
                  !.op.calls = Append(@, "Recorder.Stop")]

\* URuntimeVideoRecorder::StartRecording
RecorderStart(w, path, args, recOk) ==
    [w EXCEPT !.recorder = IF recOk THEN [active |-> TRUE, path |-> path] ELSE @,
              !.op.args = args,
              !.op.calls = Append(@, "Recorder.Start")]

(* --------------------------- Metadata Journal --------------------------- *)

GetMetadataFilePath(w, h) ==
    IF IsEmpty(w.handler[h].CurrentSessionVideoPath)
    THEN MetaPathOf(GenerateVideoFilename(now))
    ELSE MetaPathOf(w.handler[h].CurrentSessionVideoPath)

\* The entry Start writes. StartTime, Duration, FPS and Resolution are
\* written too and read by nothing.
RecordingEntry(path) ==
    [Status |-> "RECORDING",
     VideoPath |-> ConvertRelativePathToFull(path),
     CrashVideoPath |-> EmptyPath]

CreateCrashMetadataFile(w, h, bad) ==
    LET MetadataPath == GetMetadataFilePath(w, h)
        w1 == [w EXCEPT !.op.calls = Append(@, "CreateCrashMetadataFile")]
    IN  IF IsEmpty(w.handler[h].CurrentSessionVideoPath)
        THEN w1
        ELSE IF Fails(bad, "write", MetadataPath)
        THEN [w1 EXCEPT !.op.faulted = @ \cup {Fault("write", MetadataPath)}]
        ELSE [w1 EXCEPT
                !.meta[FileKey(MetadataPath)] =
                    RecordingEntry(w.handler[h].CurrentSessionVideoPath)]

\* Mutant: the journal file is left where it is.
RemoveCrashMetadataFile_Keep(w, h, bad) == w

RemoveCrashMetadataFile(w, h, bad) ==
    LET MetadataPath == GetMetadataFilePath(w, h)
    IN  IF MetaExists(w.meta, MetadataPath)
        THEN DeleteMetaFile(w, MetadataPath, bad)
        ELSE w

(* --------------------------- Recovery Scanner --------------------------- *)

\* Mutant: a video with content that a RECORDING entry names is kept.
RecoverEntry_KeepContent(w, MetadataPath, e, bad) ==
    IF e.Status = "RECORDING" /\ ~IsEmpty(e.VideoPath)
       /\ FileExists(w.files, e.VideoPath)
       /\ w.files[FileKey(e.VideoPath)].size = "data"
    THEN DeleteMetaFile(w, MetadataPath, bad)
    ELSE DeleteMetaFile(
             IF FileExists(w.files, e.VideoPath)
             THEN DeleteVideoFile(w, e.VideoPath, bad)
             ELSE w,
             MetadataPath, bad)

\* Mutant: a CRASH_RECORDED entry whose artifact is gone is kept.
RecoverEntry_KeepWithoutArtifact(w, MetadataPath, e, bad) ==
    LET CrashRecoveryVideoPath == CrashRecoveryPathOf(e.CrashVideoPath)
    IN  IF e.Status = "CRASH_RECORDED"
        THEN IF FileExists(w.files, CrashRecoveryVideoPath)
             THEN DeleteMetaFile(
                      DeleteVideoFile(w, CrashRecoveryVideoPath, bad),
                      MetadataPath, bad)
             ELSE w
        ELSE DeleteMetaFile(
                 IF FileExists(w.files, e.VideoPath)
                 THEN DeleteVideoFile(w, e.VideoPath, bad)
                 ELSE w,
                 MetadataPath, bad)

\* Mutant: for an entry without a video path, the video named like the
\* journal file is deleted with it.
RecoverEntry_DeleteNamesake(w, MetadataPath, e, bad) ==
    LET Namesake == [MetadataPath EXCEPT !.ext = <<".mp4">>]
    IN  IF e.Status # "CRASH_RECORDED" /\ IsEmpty(e.VideoPath)
        THEN DeleteMetaFile(DeleteVideoFile(w, Namesake, bad),
                            MetadataPath, bad)
        ELSE DeleteMetaFile(
                 IF e.Status = "CRASH_RECORDED"
                 THEN DeleteVideoFile(w, CrashRecoveryPathOf(e.CrashVideoPath),
                                      bad)
                 ELSE DeleteVideoFile(w, e.VideoPath, bad),
                 MetadataPath, bad)

\* Mutant: an entry whose Status is neither RECORDING nor CRASH_RECORDED is
\* passed over.
RecoverEntry_KnownStatusOnly(w, MetadataPath, e, bad) ==
    IF e.Status \notin {"RECORDING", "CRASH_RECORDED"}
    THEN w
    ELSE DeleteMetaFile(
             IF e.Status = "CRASH_RECORDED"
             THEN DeleteVideoFile(w, CrashRecoveryPathOf(e.CrashVideoPath), bad)
             ELSE IF IsEmpty(e.VideoPath)
             THEN w
             ELSE DeleteVideoFile(w, e.VideoPath, bad),
             MetadataPath, bad)

\* What the loop does with an entry e it has read from MetadataPath.
RecoverEntry(w, MetadataPath, e, bad) ==
    LET CrashRecoveryVideoPath == CrashRecoveryPathOf(e.CrashVideoPath)
    IN  IF e.Status = "CRASH_RECORDED"
        THEN DeleteMetaFile(
                 IF FileExists(w.files, CrashRecoveryVideoPath)
                 THEN DeleteVideoFile(w, CrashRecoveryVideoPath, bad)
                 ELSE w,
                 MetadataPath, bad)
        ELSE IF IsEmpty(e.VideoPath)
        THEN DeleteMetaFile(w, MetadataPath, bad)
        ELSE DeleteMetaFile(
                 IF FileExists(w.files, e.VideoPath)
                 THEN DeleteVideoFile(w, e.VideoPath, bad)
                 ELSE w,
                 MetadataPath, bad)

\* The body of the loop over the journal files, for one file.
RecoverOne(w, MetadataPath, bad) ==
    IF Fails(bad, "read", MetadataPath)
    THEN [w EXCEPT !.op.faulted = @ \cup {Fault("read", MetadataPath)}]
    ELSE LET e == w.meta[FileKey(MetadataPath)]
         IN  RecoverEntry([w EXCEPT !.op.entries = @ \cup {e}],
                          MetadataPath, e, bad)

\* Mutant: the loop ends at the first journal file that cannot be read.
RECURSIVE RecoverEntries_BreakOnFailure(_, _, _)
RecoverEntries_BreakOnFailure(w, todo, bad) ==
    IF todo = {}
    THEN w
    ELSE LET p == CHOOSE x \in todo : TRUE
         IN  IF Fails(bad, "read", p)
             THEN RecoverOne(w, p, bad)
             ELSE RecoverEntries_BreakOnFailure(RecoverOne(w, p, bad),
                                                todo \ {p}, bad)

\* The loop. An entry's processing deletes only that entry and the video it
\* names, so the order of the enumeration does not change the result.
RECURSIVE RecoverEntries(_, _, _)
RecoverEntries(w, todo, bad) ==
    IF todo = {}
    THEN w
    ELSE LET p == CHOOSE x \in todo : TRUE
         IN  RecoverEntries(RecoverOne(w, p, bad), todo \ {p}, bad)

RecoverPreviousCrashVideos(w, bad) ==
    LET MetadataFiles ==
            {p \in DOMAIN w.meta :
                MetaExists(w.meta, p) /\ InCrashVideoDirectory(p)
                /\ EndsWith(p, ".meta")}
        w1 == [w EXCEPT !.op.calls = Append(@, "RecoverPreviousCrashVideos")]
    IN  IF ~w.dirExists \/ MetadataFiles = {}
        THEN w1
        ELSE RecoverEntries([w1 EXCEPT !.op.scanned = MetadataFiles],
                            MetadataFiles, bad)

(* -------------------------- Retention Manager --------------------------- *)

\* Mutant: the array is sorted newest first.
Oldest_Newest(f, S) == {p \in S : \A q \in S : f[p].mtime >= f[q].mtime}

\* The files that may stand first in an array sorted by modification time:
\* the sort is not stable, so any file of the least time stamp may.
Oldest(f, S) == {p \in S : \A q \in S : f[p].mtime <= f[q].mtime}

\* Mutant: the loop ends at the first deletion that fails.
RECURSIVE DeleteOldest_AbortOnFailure(_, _, _, _, _)
DeleteOldest_AbortOnFailure(w, f, S, n, bad) ==
    IF n = 0 \/ S = {}
    THEN {w}
    ELSE UNION {IF Fails(bad, "delete", p)
                THEN {DeleteVideoFile(w, p, bad)}
                ELSE DeleteOldest_AbortOnFailure(DeleteVideoFile(w, p, bad),
                                                 f, S \ {p}, n - 1, bad) :
                    p \in {q \in S : \A r \in S : f[q].mtime <= f[r].mtime}}

\* Deleting the first n files of the sorted array: every result the sort's
\* order among equal time stamps allows.
RECURSIVE DeleteOldest(_, _, _, _, _)
DeleteOldest(w, f, S, n, bad) ==
    IF n = 0 \/ S = {}
    THEN {w}
    ELSE UNION {DeleteOldest(DeleteVideoFile(w, p, bad), f, S \ {p}, n - 1, bad) :
                    p \in Oldest(f, S)}

\* Mutant: one video fewer than MaxVideosToKeep is kept.
CleanupOldVideos_OneTooMany(w, h, bad) ==
    LET AllVideoFiles ==
            {p \in DOMAIN w.files :
                FileExists(w.files, p) /\ InCrashVideoDirectory(p)
                /\ EndsWith(p, ".mp4")}
        NumToDelete ==
            Cardinality(AllVideoFiles) - w.handler[h].MaxVideosToKeep + 1
        w1 == [w EXCEPT !.op.calls = Append(@, "CleanupOldVideos")]
    IN  IF ~w.dirExists \/ Cardinality(AllVideoFiles) < w.handler[h].MaxVideosToKeep
        THEN {w1}
        ELSE DeleteOldest(w1, w.files, AllVideoFiles, NumToDelete, bad)

CleanupOldVideos(w, h, bad) ==
    LET AllVideoFiles ==
            {p \in DOMAIN w.files :
                FileExists(w.files, p) /\ InCrashVideoDirectory(p)
                /\ EndsWith(p, ".mp4")}
        NumToDelete == Cardinality(AllVideoFiles) - w.handler[h].MaxVideosToKeep
        w1 == [w EXCEPT !.op.calls = Append(@, "CleanupOldVideos")]
    IN  IF ~w.dirExists \/ Cardinality(AllVideoFiles) <= w.handler[h].MaxVideosToKeep
        THEN {w1}
        ELSE DeleteOldest(w1, w.files, AllVideoFiles, NumToDelete, bad)

(* --------------------- single-precision arithmetic ---------------------- *)

\* A float is the number m * 2^e with 0 <= m < 2^24: IEEE 754 binary32,
\* rounding to nearest, ties to even. The values met here are far from the
\* ends of the exponent range.
RECURSIVE Pow2(_)
Pow2(n) == IF n = 0 THEN 1 ELSE 2 * Pow2(n - 1)

RECURSIVE BitLength(_)
BitLength(n) == IF n = 0 THEN 0 ELSE 1 + BitLength(n \div 2)

RECURSIVE TrailingZeros(_)
TrailingZeros(n) ==
    IF n = 0 \/ n % 2 = 1 THEN 0 ELSE 1 + TrailingZeros(n \div 2)

\* q, or q + 1, for a quotient q with remainder r of a division by d.
RoundHalfEven(q, r, d) ==
    IF 2 * r > d \/ (2 * r = d /\ q % 2 = 1) THEN q + 1 ELSE q

\* The float with mantissa m, where rounding may have carried m up to 2^24.
Carried(m, e) ==
    IF m = Pow2(24) THEN [m |-> Pow2(23), e |-> e + 1] ELSE [m |-> m, e |-> e]

\* The float nearest to n * 2^e.
RoundToFloat(n, e) ==
    LET k == BitLength(n) - 24
    IN  IF k <= 0
        THEN [m |-> n, e |-> e]
        ELSE Carried(RoundHalfEven(n \div Pow2(k), n % Pow2(k), Pow2(k)), e + k)

\* The conversion of an int32 to float.
IntToFloat(i) == RoundToFloat(i, 0)

\* The least s with n * 2^s >= d * 2^23.
RECURSIVE ShiftFor(_, _)
ShiftFor(n, d) == IF n >= d * Pow2(23) THEN 0 ELSE 1 + ShiftFor(2 * n, d)

\* x / y, for x and y of small integer value.
FloatDiv(x, y) ==
    IF x.m = 0
    THEN [m |-> 0, e |-> 0]
    ELSE LET s == ShiftFor(x.m, y.m)
             n == x.m * Pow2(s)
         IN  Carried(RoundHalfEven(n \div y.m, n % y.m, y.m), x.e - y.e - s)

\* x * y, for y a value whose odd part is below 2^14. The product of the
\* mantissas is formed in two 12-bit limbs, hi * 2^12 + lo, and rounded from
\* there to 24 bits by dropping its k low bits.
FloatMul(x, y) ==
    LET z == TrailingZeros(y.m)
        c == y.m \div Pow2(z)
        p0 == (x.m % 4096) * c
        hi == (x.m \div 4096) * c + p0 \div 4096
        lo == p0 % 4096
        e == x.e + y.e + z
        k == IF BitLength(hi) > 12 THEN BitLength(hi) - 12 ELSE 0
        t == k - 12
    IN  IF k = 0
        THEN [m |-> hi * 4096 + lo, e |-> e]
        ELSE IF k <= 12
        THEN Carried(RoundHalfEven(hi * Pow2(12 - k) + lo \div Pow2(k),
                                   lo % Pow2(k), Pow2(k)),
                     e + k)
        ELSE Carried(RoundHalfEven(hi \div Pow2(t),
                                   (hi % Pow2(t)) * 4096 + lo, Pow2(k)),
                     e + k)

\* x + y, for values whose exponents lie close together.
FloatAdd(x, y) ==
    LET e == IF x.e < y.e THEN x.e ELSE y.e
    IN  RoundToFloat(x.m * Pow2(x.e - e) + y.m * Pow2(y.e - e), e)

\* The conversion of a float that is not negative to int32: truncation.
FloatToInt(x) ==
    IF x.e >= 0 THEN x.m * Pow2(x.e) ELSE x.m \div Pow2(0 - x.e)

\* FMath::Lerp<int32, float>: (int32)(A + Alpha * (B - A)), the sum and the
\* product in float.
Lerp(A, B, Alpha) ==
    FloatToInt(FloatAdd(IntToFloat(A), FloatMul(Alpha, IntToFloat(B - A))))

(* --------------------- Recording Session Controller --------------------- *)

\* Mutant: FMath::Clamp without its upper bound.
Clamp_LowerOnly(x, lo, hi) == IF x < lo THEN lo ELSE x

\* FMath::Clamp
Clamp(x, lo, hi) == IF x < lo THEN lo ELSE IF x > hi THEN hi ELSE x

ClampConfig(Config) ==
    [LastSecondsToRecord |->
         Clamp(Config.LastSecondsToRecord, MinLastSeconds, MaxLastSeconds),
     TargetFPS |-> Clamp(Config.TargetFPS, MinTargetFPS, MaxTargetFPS),
     QualityPreset |->
         Clamp(Config.QualityPreset, MinQualityPreset, MaxQualityPreset)]

\* Mutant: the quality preset is divided by 100 in integers.
VideoBitrate_IntegerDivision(QualityPreset) ==
    MinBitrate + (QualityPreset \div 100) * (MaxBitrate - MinBitrate)

\* FMath::Lerp(2000000, 10000000, QualityPreset / 100.0f) for each quality
\* preset that is not negative, worked out once.
LerpOfPreset ==
    [q \in 0..(MaxQualityPreset + 1) |->
        Lerp(MinBitrate, MaxBitrate, FloatDiv(IntToFloat(q), IntToFloat(100)))]

\* EncoderSettings.VideoBitrate =
\*     FMath::Lerp(2000000, 10000000, CurrentConfig.QualityPreset / 100.0f)
VideoBitrate(QualityPreset) == LerpOfPreset[QualityPreset]

\* What StartRecording is handed of the clamped config.
RecorderArgs(Config) ==
    [TargetFPS |-> Config.TargetFPS,
     LastSecondsToRecord |-> Config.LastSecondsToRecord,
     VideoBitrate |-> VideoBitrate(Config.QualityPreset)]

\* Mutant: Start does not test whether the handler is recording.
AlreadyRecording_Never(w, h) == FALSE

\* Start's first test: this handler object is already recording.
AlreadyRecording(w, h) == w.handler[h].bIsRecording

\* Mutant: the Sentry subsystem is taken to be there and enabled.
SentryAvailable_Always == TRUE

\* SentrySubsystem && SentrySubsystem->IsEnabled()
SentryAvailable == sentry = "enabled"

\* GetEngineSubsystem<URuntimeVideoRecorder>() is not null
RecorderAvailable == recorderPresent

\* "If already recording something else, stop it first"
StopOtherRecording(w, flush) ==
    IF w.recorder.active THEN RecorderStop(w, flush) ELSE w

\* Mutant: the journal entry is written before the Recovery Scanner runs.
StartRecorded_CreateFirst(w, h, bad) ==
    LET w1 == [w EXCEPT !.handler[h].bIsRecording = TRUE,
                        !.handler[h].bCrashDetected = FALSE]
        w2 == CreateCrashMetadataFile(w1, h, bad)
        w3 == RecoverPreviousCrashVideos(w2, bad)
    IN  {[w4 EXCEPT !.op.ok = TRUE] : w4 \in CleanupOldVideos(w3, h, bad)}

\* What Start does once the Recorder has confirmed the recording: the state
\* change, the Recovery Scanner, the journal entry, the Retention Manager.
StartRecorded(w, h, bad) ==
    LET w1 == [w EXCEPT !.handler[h].bIsRecording = TRUE,
                        !.handler[h].bCrashDetected = FALSE]
        w2 == RecoverPreviousCrashVideos(w1, bad)
        w3 == CreateCrashMetadataFile(w2, h, bad)
    IN  {[w4 EXCEPT !.op.ok = TRUE] : w4 \in CleanupOldVideos(w3, h, bad)}

\* Mutant: the Recovery Scanner runs before the Recorder has been asked.
StartPrepared_ScanEarly(w, h, Config, mkdirOk, recOk, bad) ==
    LET w1 == [w EXCEPT !.handler[h].CurrentConfig = ClampConfig(Config)]
        w2 == RecoverPreviousCrashVideos([w1 EXCEPT !.dirExists = TRUE], bad)
        w3 == [w2 EXCEPT !.handler[h].CurrentSessionVideoPath =
                             GenerateVideoFilename(now)]
        w4 == RecorderStart(w3, w3.handler[h].CurrentSessionVideoPath,
                            RecorderArgs(w3.handler[h].CurrentConfig), recOk)
    IN  IF ~w1.dirExists /\ ~mkdirOk
        THEN {w1}
        ELSE IF ~recOk
        THEN {w4}
        ELSE StartRecorded(w4, h, bad)

\* Start from the clamping of the config on.
StartPrepared(w, h, Config, mkdirOk, recOk, bad) ==
    LET w1 == [w EXCEPT !.handler[h].CurrentConfig = ClampConfig(Config)]
        w2 == [w1 EXCEPT !.dirExists = TRUE]
        w3 == [w2 EXCEPT !.handler[h].CurrentSessionVideoPath =
                             GenerateVideoFilename(now)]
        w4 == RecorderStart(w3, w3.handler[h].CurrentSessionVideoPath,
                            RecorderArgs(w3.handler[h].CurrentConfig), recOk)
    IN  IF ~w1.dirExists /\ ~mkdirOk
        THEN {w1}
        ELSE IF ~recOk
        THEN {w4}
        ELSE StartRecorded(w4, h, bad)

\* USentryCrashVideoHandler::StartContinuousRecording: the worlds it may
\* leave; op.ok is its return value.
StartContinuousRecording(w, h, Config, flush, mkdirOk, recOk, bad) ==
    IF AlreadyRecording(w, h)
    THEN {w}
    ELSE IF ~SentryAvailable
    THEN {w}
    ELSE IF ~RecorderAvailable
    THEN {w}
    ELSE StartPrepared(StopOtherRecording(w, flush), h, Config, mkdirOk,
                       recOk, bad)

\* Mutant: Stop without its early return on a handler that is not recording.
StopContinuousRecording_NoIdleReturn(w, h, flush, bad) ==
    LET w1 == IF RecorderAvailable /\ w.recorder.active
              THEN RecorderStop(w, flush)
              ELSE w
        w2 == [w1 EXCEPT !.handler[h].bIsRecording = FALSE]
        w3 == IF ~w2.handler[h].bCrashDetected
              THEN RemoveCrashMetadataFile(w2, h, bad)
              ELSE w2
    IN  [w3 EXCEPT !.handler[h].CurrentSessionVideoPath = EmptyPath]

\* Mutant: Stop leaves the journal entry of its session on disk.
StopContinuousRecording_NeverRemove(w, h, flush, bad) ==
    IF ~w.handler[h].bIsRecording
    THEN w
    ELSE LET w1 == IF RecorderAvailable /\ w.recorder.active
                   THEN RecorderStop(w, flush)
                   ELSE w
         IN  [w1 EXCEPT !.handler[h].bIsRecording = FALSE,
                        !.handler[h].CurrentSessionVideoPath = EmptyPath]

\* Mutant: Stop deletes the journal entry whatever the crash flag says.
StopContinuousRecording_AlwaysRemove(w, h, flush, bad) ==
    IF ~w.handler[h].bIsRecording
    THEN w
    ELSE LET w1 == IF RecorderAvailable /\ w.recorder.active
                   THEN RecorderStop(w, flush)
                   ELSE w
             w2 == [w1 EXCEPT !.handler[h].bIsRecording = FALSE]
             w3 == RemoveCrashMetadataFile(w2, h, bad)
         IN  [w3 EXCEPT !.handler[h].CurrentSessionVideoPath = EmptyPath]

\* USentryCrashVideoHandler::StopContinuousRecording
StopContinuousRecording(w, h, flush, bad) ==
    IF ~w.handler[h].bIsRecording
    THEN w
    ELSE LET w1 == IF RecorderAvailable /\ w.recorder.active
                   THEN RecorderStop(w, flush)
                   ELSE w
             w2 == [w1 EXCEPT !.handler[h].bIsRecording = FALSE]
             w3 == IF ~w2.handler[h].bCrashDetected
                   THEN RemoveCrashMetadataFile(w2, h, bad)
                   ELSE w2
         IN  [w3 EXCEPT !.handler[h].CurrentSessionVideoPath = EmptyPath]

\* USentryCrashVideoHandler::BeginDestroy, up to Super::BeginDestroy.
BeginDestroy(w, h, flush, bad) ==
    StopContinuousRecording(
        IF ~w.handler[h].bCrashDetected
        THEN RemoveCrashMetadataFile(w, h, bad)
        ELSE w,
        h, flush, bad)

\* Mutant: the file of the last recording is looked at whether or not a
\* recording is in progress.
FinalizeAndSaveVideo_NoActiveCheck(w, flush) ==
    IF ~RecorderAvailable
    THEN [w EXCEPT !.op.path = EmptyPath]
    ELSE LET w1 == IF w.recorder.active THEN RecorderStop(w, flush) ELSE w
             VideoPath == w1.recorder.path
         IN  IF FileExists(w1.files, VideoPath)
                /\ w1.files[FileKey(VideoPath)].size = "data"
             THEN [w1 EXCEPT !.op.path = VideoPath]
             ELSE [w1 EXCEPT !.op.path = EmptyPath]

\* Mutant: the size of the saved file is not looked at.
FinalizeAndSaveVideo_NoSizeCheck(w, flush) ==
    IF ~RecorderAvailable \/ ~w.recorder.active
    THEN [w EXCEPT !.op.path = EmptyPath]
    ELSE LET w1 == RecorderStop(w, flush)
             VideoPath == w1.recorder.path
         IN  IF FileExists(w1.files, VideoPath)
             THEN [w1 EXCEPT !.op.path = VideoPath]
             ELSE [w1 EXCEPT !.op.path = EmptyPath]

\* USentryCrashVideoHandler::FinalizeAndSaveVideo: the world it leaves, with
\* its return value in op.path.
FinalizeAndSaveVideo(w, flush) ==
    IF ~RecorderAvailable \/ ~w.recorder.active
    THEN [w EXCEPT !.op.path = EmptyPath]
    ELSE LET w1 == RecorderStop(w, flush)
             VideoPath == w1.recorder.path
         IN  IF FileExists(w1.files, VideoPath)
                /\ w1.files[FileKey(VideoPath)].size = "data"
             THEN [w1 EXCEPT !.op.path = VideoPath]
             ELSE [w1 EXCEPT !.op.path = EmptyPath]

\* USentrySubsystem::AddAttachment: the attachment joins the current scope.
AddAttachment(w, VideoPath) ==
    [w EXCEPT !.attachments = Append(@, VideoPath)]

\* Mutant: the file is not looked for before the attachment is made.
AttachVideoToSentry_NoFileCheck(w, VideoPath, makeOk) ==
    IF IsEmpty(VideoPath) \/ ~SentryAvailable \/ ~makeOk
    THEN [w EXCEPT !.op.ok = FALSE]
    ELSE [AddAttachment(w, VideoPath) EXCEPT !.op.ok = TRUE]

\* Mutant: the new attachment takes the place of those added before.
AttachVideoToSentry_Replace(w, VideoPath, makeOk) ==
    IF IsEmpty(VideoPath) \/ ~SentryAvailable
       \/ ~FileExists(w.files, VideoPath) \/ ~makeOk
    THEN [w EXCEPT !.op.ok = FALSE]
    ELSE [w EXCEPT !.attachments = <<VideoPath>>, !.op.ok = TRUE]

\* USentryCrashVideoHandler::AttachVideoToSentry: the world it leaves, with
\* its return value in op.ok. makeOk: CreateSentryAttachmentWithPath
\* returned an attachment.
AttachVideoToSentry(w, VideoPath, makeOk) ==
    IF IsEmpty(VideoPath)
    THEN [w EXCEPT !.op.ok = FALSE]
    ELSE IF ~SentryAvailable
    THEN [w EXCEPT !.op.ok = FALSE]
    ELSE IF ~FileExists(w.files, VideoPath)
    THEN [w EXCEPT !.op.ok = FALSE]
    ELSE IF ~makeOk
    THEN [w EXCEPT !.op.ok = FALSE]
    ELSE [AddAttachment(w, VideoPath) EXCEPT !.op.ok = TRUE]

\* Mutant: the path of the saved video is returned whatever Attach answered.
CaptureAndAttachVideo_IgnoreAttach(w, h, flush, makeOk) ==
    IF ~w.handler[h].bIsRecording
    THEN [w EXCEPT !.op.path = EmptyPath]
    ELSE LET w1 == FinalizeAndSaveVideo(w, flush)
             VideoPath == w1.op.path
         IN  IF ~IsEmpty(VideoPath)
             THEN AttachVideoToSentry(w1, VideoPath, makeOk)
             ELSE [w1 EXCEPT !.op.path = EmptyPath]

\* USentryCrashVideoHandler::CaptureAndAttachVideo: the world it leaves,
\* with its return value in op.path.
CaptureAndAttachVideo(w, h, flush, makeOk) ==
    IF ~w.handler[h].bIsRecording
    THEN [w EXCEPT !.op.path = EmptyPath]
    ELSE LET w1 == FinalizeAndSaveVideo(w, flush)
             VideoPath == w1.op.path
             w2 == AttachVideoToSentry(w1, VideoPath, makeOk)
         IN  IF ~IsEmpty(VideoPath) /\ w2.op.ok
             THEN w2
             ELSE IF ~IsEmpty(VideoPath)
             THEN [w2 EXCEPT !.op.path = EmptyPath]
             ELSE [w1 EXCEPT !.op.path = EmptyPath]

\* Mutant: the argument is stored as it is given.
SetMaxVideosToKeep_NoClamp(w, h, MaxVideos) ==
    [w EXCEPT !.handler[h].MaxVideosToKeep = MaxVideos]

\* USentryCrashVideoHandler::SetMaxVideosToKeep
SetMaxVideosToKeep(w, h, MaxVideos) ==
    [w EXCEPT !.handler[h].MaxVideosToKeep =
                  IF MaxVideos > MinVideosToKeep THEN MaxVideos
                  ELSE MinVideosToKeep]

(* ------------------------------- Init ----------------------------------- *)

NoFiles == [p \in VideoFiles |-> NoFile]
NoMeta == [p \in MetaFiles |-> NoEntry]

FirstVideo == FileKey(GenerateVideoFilename(0))

\* Nothing on disk, without and with the crash video directory.
CleanDisks ==
    {[dirExists |-> FALSE, files |-> NoFiles, meta |-> NoMeta],
     [dirExists |-> TRUE, files |-> NoFiles, meta |-> NoMeta]}

\* What a process that ended abnormally may have left on disk.
LeftoverDisks ==
    {\* it died while recording, its video on disk
     [dirExists |-> TRUE,
      files |-> [NoFiles EXCEPT ![FirstVideo] = [size |-> "data", mtime |-> 0]],
      meta |-> [NoMeta EXCEPT ![MetaPathOf(FirstVideo)] =
                   RecordingEntry(FirstVideo)]],
     \* it crashed and the emergency capture wrote its artifact
     [dirExists |-> TRUE,
      files |-> [NoFiles EXCEPT ![CrashRecoveryPathOf(FirstVideo)] =
                    [size |-> "data", mtime |-> 0]],
      meta |-> [NoMeta EXCEPT ![MetaPathOf(FirstVideo)] =
                   [Status |-> "CRASH_RECORDED", VideoPath |-> FirstVideo,
                    CrashVideoPath |-> FirstVideo]]]}

\* The state of a process in which no handler object exists yet.
InitWith(disks, sentries, recorders) ==
    /\ handler = [h \in Handlers |-> NoHandler]
    /\ recorder = [active |-> FALSE, path |-> EmptyPath]
    /\ recorderPresent \in recorders
    /\ sentry \in sentries
    /\ attachments = << >>
    /\ \E d \in disks :
          /\ dirExists = d.dirExists
          /\ files = d.files
          /\ meta = d.meta
    /\ now = 0
    /\ lastOp = NewOp("Init", "-")

(* ------------------------------ actions --------------------------------- *)

\* The world an operation of handler h starts from.
Begin(name, h) ==
    [World EXCEPT !.op = [NewOp(name, h) EXCEPT
                             !.wasRecording = handler[h].bIsRecording,
                             !.crashFlag = handler[h].bCrashDetected]]

Commit(w) ==
    /\ handler' = w.handler
    /\ recorder' = w.recorder
    /\ attachments' = w.attachments
    /\ dirExists' = w.dirExists
    /\ files' = w.files
    /\ meta' = w.meta
    /\ lastOp' = w.op
    /\ UNCHANGED <<recorderPresent, sentry, now>>

\* The value given to an input that the call does not read.
Unused(S) == CHOOSE x \in S : TRUE

\* Faults on calls the state allows: a read or a delete of a file that
\* exists, a write of the journal file of this second.
Applicable(bad) ==
    \A f \in bad :
        \/ f.kind = "write"
              /\ f.path = FileKey(MetaPathOf(GenerateVideoFilename(now)))
        \/ f.kind # "write"
              /\ (MetaExists(meta, f.path) \/ FileExists(files, f.path))

\* Start gets as far as the Recorder.
StartReachesRecorder(h) ==
    ~handler[h].bIsRecording /\ SentryAvailable /\ RecorderAvailable

\* NewObject<USentryCrashVideoHandler>()
NewObject(h) ==
    /\ ~handler[h].live
    /\ Commit([Begin("NewObject", h) EXCEPT !.handler[h] = DefaultHandler])

\* I: the sets the inputs of the calls are drawn from.
Start(h, I) ==
    /\ handler[h].live
    /\ \E Config \in I.Configs, flush \in I.Flushes,
          mkdirOk \in BOOLEAN, recOk \in BOOLEAN, bad \in I.Faults :
          /\ IF StartReachesRecorder(h) THEN TRUE ELSE Config = Unused(I.Configs)
          /\ IF StartReachesRecorder(h) /\ recorder.active
             THEN TRUE ELSE flush = Unused(I.Flushes)
          /\ IF StartReachesRecorder(h) /\ ~dirExists
             THEN TRUE ELSE mkdirOk
          /\ IF StartReachesRecorder(h) /\ mkdirOk THEN TRUE ELSE recOk
          /\ IF StartReachesRecorder(h) /\ mkdirOk /\ recOk
             THEN Applicable(bad) ELSE bad = {}
          /\ \E w \in StartContinuousRecording(
                          [Begin("Start", h) EXCEPT !.op.Config = Config], h,
                          Config, flush, mkdirOk, recOk, bad) :
                Commit(w)

Stop(h, I) ==
    /\ handler[h].live
    /\ \E flush \in I.Flushes, bad \in I.Faults :
          /\ IF handler[h].bIsRecording /\ recorder.active
             THEN TRUE ELSE flush = Unused(I.Flushes)
          /\ IF handler[h].bIsRecording THEN Applicable(bad) ELSE bad = {}
          /\ Commit(StopContinuousRecording(Begin("Stop", h), h, flush, bad))

\* The object is destroyed: its members are gone.
Destroy(h, I) ==
    /\ handler[h].live
    /\ \E flush \in I.Flushes, bad \in I.Faults :
          /\ IF handler[h].bIsRecording /\ recorder.active
             THEN TRUE ELSE flush = Unused(I.Flushes)
          /\ Applicable(bad)
          /\ Commit([BeginDestroy(Begin("BeginDestroy", h), h, flush, bad)
                        EXCEPT !.handler[h] = NoHandler])

Capture(h, I) ==
    /\ handler[h].live
    /\ Len(attachments) < MaxAttachments
    /\ \E flush \in I.Flushes, makeOk \in BOOLEAN :
          /\ IF handler[h].bIsRecording /\ recorder.active
             THEN TRUE ELSE flush = Unused(I.Flushes) /\ makeOk
          /\ Commit(CaptureAndAttachVideo(Begin("Capture", h), h, flush,
                                          makeOk))

\* AttachVideoToSentry called on a path of the caller's choosing: no path, the
\* path of a session video, a path outside the directory. The observation
\* keeps the argument in op.path.
AttachPathInputs ==
    {EmptyPath, UnrelatedPath} \cup {GenerateVideoFilename(t) : t \in Times}

Attach(h, I) ==
    /\ handler[h].live
    /\ Len(attachments) < MaxAttachments
    /\ \E VideoPath \in AttachPathInputs, makeOk \in BOOLEAN :
          /\ IF ~IsEmpty(VideoPath) /\ SentryAvailable
                 /\ FileExists(files, VideoPath)
             THEN TRUE ELSE makeOk
          /\ Commit(AttachVideoToSentry(
                        [Begin("Attach", h) EXCEPT !.op.path = VideoPath],
                        VideoPath, makeOk))

SetMax(h, I) ==
    /\ handler[h].live
    /\ \E MaxVideos \in I.MaxVideos :
          Commit(SetMaxVideosToKeep(
                     [Begin("SetMaxVideosToKeep", h) EXCEPT
                         !.op.MaxVideos = MaxVideos],
                     h, MaxVideos))

\* The crash hook of a recording handler: the crash flag is set.
OnCrashDetected(h) ==
    /\ handler[h].live
    /\ handler[h].bIsRecording
    /\ ~handler[h].bCrashDetected
    /\ Commit([Begin("OnCrashDetected", h) EXCEPT
                  !.handler[h].bCrashDetected = TRUE])

\* Another user of the Recorder starts a recording of its own.
UnrelatedRecording ==
    /\ recorderPresent
    /\ ~recorder.active
    /\ recorder' = [active |-> TRUE, path |-> UnrelatedPath]
    /\ lastOp' = NewOp("UnrelatedRecording", "-")
    /\ UNCHANGED <<handler, recorderPresent, sentry, attachments, dirExists,
                   files, meta, now>>

\* The Sentry subsystem is initialized or closed.
SentryToggle ==
    /\ sentry # "missing"
    /\ sentry' = IF sentry = "enabled" THEN "disabled" ELSE "enabled"
    /\ lastOp' = NewOp("SentryToggle", "-")
    /\ UNCHANGED <<handler, recorder, recorderPresent, attachments, dirExists,
                   files, meta, now>>

Tick ==
    /\ now < MaxTime
    /\ now' = now + 1
    /\ lastOp' = NewOp("Tick", "-")
    /\ UNCHANGED <<handler, recorder, recorderPresent, sentry, attachments,
                   dirExists, files, meta>>

(* --------------------------- specifications ----------------------------- *)

\* Faults on the journal files.
JournalFaults ==
    {{}} \cup {{Fault(k, p)} : k \in {"read", "write", "delete"}, p \in MetaFiles}

\* The session protocol of one handler object: start, stop, crash flag,
\* destruction, with leftovers of earlier processes on disk and faults on
\* the journal files.
ProtocolInputs ==
    [Configs |-> {DefaultConfig}, Flushes |-> {"data", "none"},
     Faults |-> JournalFaults, MaxVideos |-> {DefaultMaxVideosToKeep}]

Init ==
    InitWith(CleanDisks \cup LeftoverDisks,
             {"missing", "disabled", "enabled"}, BOOLEAN)

Next ==
    \/ NewObject("A")
    \/ Start("A", ProtocolInputs)
    \/ Stop("A", ProtocolInputs)
    \/ Destroy("A", ProtocolInputs)
    \/ OnCrashDetected("A")
    \/ UnrelatedRecording
    \/ Tick

Spec == Init /\ [][Next]_vars

\* Two handler objects in one process, on a clean disk, with no faults.
HandlersInputs ==
    [Configs |-> {DefaultConfig}, Flushes |-> {"data"},
     Faults |-> {{}}, MaxVideos |-> {DefaultMaxVideosToKeep}]

InitHandlers == InitWith(CleanDisks, {"enabled"}, {TRUE})

NextHandlers ==
    \/ \E h \in Handlers : NewObject(h)
    \/ \E h \in Handlers : Start(h, HandlersInputs)
    \/ \E h \in Handlers : Stop(h, HandlersInputs)
    \/ \E h \in Handlers : Destroy(h, HandlersInputs)
    \/ Tick

SpecHandlers == InitHandlers /\ [][NextHandlers]_vars

\* One handler object with manual capture, the Sentry subsystem coming and
\* going, and every outcome of the Recorder's flush.
CaptureInputs ==
    [Configs |-> {DefaultConfig}, Flushes |-> FlushOutcomes,
     Faults |-> {{}}, MaxVideos |-> {DefaultMaxVideosToKeep}]

InitCapture == InitWith(CleanDisks, {"enabled"}, {TRUE})

NextCapture ==
    \/ NewObject("A")
    \/ Start("A", CaptureInputs)
    \/ Stop("A", CaptureInputs)
    \/ Capture("A", CaptureInputs)
    \/ SentryToggle
    \/ Tick

SpecCapture == InitCapture /\ [][NextCapture]_vars

\* The whole life of one handler object in a process that starts on a clean
\* disk and in which no crash is flagged: start, capture, stop, destruction,
\* with faults on the journal files.
LifetimeInputs ==
    [Configs |-> {DefaultConfig}, Flushes |-> {"data", "none"},
     Faults |-> JournalFaults, MaxVideos |-> {DefaultMaxVideosToKeep}]

InitLifetime == InitWith(CleanDisks, {"enabled"}, {TRUE})

NextLifetime ==
    \/ NewObject("A")
    \/ Start("A", LifetimeInputs)
    \/ Capture("A", LifetimeInputs)
    \/ Stop("A", LifetimeInputs)
    \/ Destroy("A", LifetimeInputs)
    \/ Tick

SpecLifetime == InitLifetime /\ [][NextLifetime]_vars

\* What an earlier process may have left for the Recovery Scanner: a journal
\* entry of either status, of no status or of a status the scanner does not
\* know, with or without a video path; the session video and the
\* crash-recovery artifact each absent, empty or with content; and with or
\* without a second RECORDING entry and its video.
OrphanEntry ==
    [Status |-> "RECORDING", VideoPath |-> EmptyPath,
     CrashVideoPath |-> EmptyPath]

CrashRecordedEntry ==
    [Status |-> "CRASH_RECORDED", VideoPath |-> FirstVideo,
     CrashVideoPath |-> FirstVideo]

\* An entry without a Status line, and one with a Status of some other text.
NoStatusEntry ==
    [Status |-> "", VideoPath |-> FirstVideo, CrashVideoPath |-> EmptyPath]

OtherStatusEntry ==
    [Status |-> "FINISHED", VideoPath |-> FirstVideo,
     CrashVideoPath |-> EmptyPath]

SecondVideo == FileKey(GenerateVideoFilename(1))

FileSizes == {"absent", "data", "empty"}

RecoveryDisks ==
    {[dirExists |-> TRUE,
      files |-> [NoFiles EXCEPT
                    ![FirstVideo] = [size |-> v, mtime |-> 0],
                    ![CrashRecoveryPathOf(FirstVideo)] =
                        [size |-> c, mtime |-> 0]],
      meta |-> [NoMeta EXCEPT ![MetaPathOf(FirstVideo)] = e]] :
        v \in FileSizes, c \in FileSizes,
        e \in {RecordingEntry(FirstVideo), OrphanEntry, CrashRecordedEntry,
               NoStatusEntry, OtherStatusEntry}}
    \cup
    {[dirExists |-> TRUE,
      files |-> [NoFiles EXCEPT
                    ![FirstVideo] = [size |-> v, mtime |-> 0],
                    ![SecondVideo] = [size |-> "data", mtime |-> 0]],
      meta |-> [NoMeta EXCEPT
                   ![MetaPathOf(FirstVideo)] = e,
                   ![MetaPathOf(SecondVideo)] = RecordingEntry(SecondVideo)]] :
        v \in {"data", "empty"},
        e \in {RecordingEntry(FirstVideo), CrashRecordedEntry, OtherStatusEntry}}

RecoveryInputs ==
    [Configs |-> {DefaultConfig}, Flushes |-> {"data"},
     Faults |-> FaultInputs, MaxVideos |-> {DefaultMaxVideosToKeep}]

InitRecovery == InitWith(RecoveryDisks, {"enabled"}, {TRUE})

NextRecovery ==
    \/ NewObject("A")
    \/ Start("A", RecoveryInputs)
    \/ OnCrashDetected("A")
    \/ Stop("A", RecoveryInputs)
    \/ Tick

SpecRecovery == InitRecovery /\ [][NextRecovery]_vars

\* The Retention Manager at work: videos that the sessions of earlier
\* processes left in the directory, each last written in the second of its
\* name or in the second the process starts, a limit set to 1 or 2, and
\* faults on the deletion of videos.
RetentionDisks ==
    {[dirExists |-> TRUE,
      files |-> [p \in VideoFiles |->
                    IF p \in present
                    THEN [size |-> "data",
                          mtime |-> IF p \in touched THEN 0 ELSE p.ts]
                    ELSE NoFile],
      meta |-> NoMeta] :
        present \in SUBSET OlderVideoFiles, touched \in SUBSET OlderVideoFiles}

VideoDeleteFaults ==
    {{}} \cup {{Fault("delete", p)} :
                  p \in SessionVideoFiles \cup OlderVideoFiles}

RetentionInputs ==
    [Configs |-> {DefaultConfig}, Flushes |-> {"data"},
     Faults |-> VideoDeleteFaults, MaxVideos |-> MaxVideosInputs]

InitRetention == InitWith(RetentionDisks, {"enabled"}, {TRUE})

NextRetention ==
    \/ NewObject("A")
    \/ SetMax("A", RetentionInputs)
    \/ Start("A", RetentionInputs)
    \/ Stop("A", RetentionInputs)
    \/ Tick

SpecRetention == InitRetention /\ [][NextRetention]_vars

\* The Attachment Bridge on its own and inside CaptureAndAttachVideo, over
\* the life of one handler object, the Sentry subsystem missing, disabled or
\* enabled.
AttachInputs ==
    [Configs |-> {DefaultConfig}, Flushes |-> {"data"},
     Faults |-> {{}}, MaxVideos |-> {DefaultMaxVideosToKeep}]

InitAttach ==
    InitWith(CleanDisks, {"missing", "disabled", "enabled"}, {TRUE})

NextAttach ==
    \/ NewObject("A")
    \/ Start("A", AttachInputs)
    \/ Stop("A", AttachInputs)
    \/ Capture("A", AttachInputs)
    \/ Attach("A", AttachInputs)
    \/ Destroy("A", AttachInputs)
    \/ SentryToggle
    \/ Tick

SpecAttach == InitAttach /\ [][NextAttach]_vars

\* Start over the configs: each field below, at and above the ends of its
\* range, and every quality preset.
StartConfigInputs ==
    [Configs |-> ConfigInputs, Flushes |-> {"data"},
     Faults |-> {{}}, MaxVideos |-> {DefaultMaxVideosToKeep}]

InitConfig == InitWith(CleanDisks, {"enabled"}, {TRUE})

NextConfig ==
    \/ NewObject("A")
    \/ Start("A", StartConfigInputs)
    \/ Stop("A", StartConfigInputs)

SpecConfig == InitConfig /\ [][NextConfig]_vars

(* ------------------------------- claims --------------------------------- *)

IsStep(name, h) == lastOp'.name = name /\ lastOp'.h = h

ExistingMeta(m) == {p \in DOMAIN m : MetaExists(m, p)}

ExistingFiles(f) == {p \in DOMAIN f : FileExists(f, p)}

RecorderCalls(op) ==
    {i \in 1..Len(op.calls) : op.calls[i] \in {"Recorder.Start", "Recorder.Stop"}}

\* C1: a Start on a handler that is already recording returns false and
\* changes nothing: the handler's members (state, video path, config), the
\* journal and the video files stay as they are, the Recorder is not called,
\* and neither the Recovery Scanner nor the Retention Manager runs.
C1_StartWhileRecordingChangesNothing ==
    [][\A h \in Handlers :
          IsStep("Start", h) /\ handler[h].bIsRecording
          => /\ ~lastOp'.ok
             /\ handler' = handler
             /\ meta' = meta
             /\ files' = files
             /\ recorder' = recorder
             /\ lastOp'.calls = << >>]_vars

\* A Start was rejected on a recording handler whose journal entry is on disk.
C1_Witness ==
    /\ lastOp.name = "Start"
    /\ lastOp.wasRecording
    /\ ~lastOp.ok
    /\ handler[lastOp.h].bIsRecording
    /\ MetaExists(meta, MetaPathOf(handler[lastOp.h].CurrentSessionVideoPath))

\* C2: at most one Controller is Recording at a time, whatever the
\* number of handler objects in the process and whatever the sequence of
\* Start and Stop calls on them.
C2_AtMostOneRecording ==
    Cardinality({h \in Handlers :
                    handler[h].live /\ handler[h].bIsRecording}) <= 1

\* The journal entries on disk that describe the session of handler h.
SessionEntries(h) ==
    {p \in DOMAIN meta :
        /\ MetaExists(meta, p)
        /\ meta[p].Status = "RECORDING"
        /\ meta[p].VideoPath =
               ConvertRelativePathToFull(handler[h].CurrentSessionVideoPath)}

\* C3: between operations, a Controller that is Recording has exactly
\* one journal entry whose VideoPath is the session's video path and whose
\* Status is RECORDING, also after a Start that returned true.
C3_OneEntryWhileRecording ==
    \A h \in Handlers :
        handler[h].live /\ handler[h].bIsRecording
        => Cardinality(SessionEntries(h)) = 1

\* A clean Stop: the handler is recording and its crash flag is not set.
IsCleanStop(h) ==
    /\ IsStep("Stop", h)
    /\ handler[h].bIsRecording
    /\ ~handler[h].bCrashDetected

C5_IdleAfterCapture ==
    lastOp.name = "Capture"
    /\ (\E i \in 1..Len(lastOp.calls) : lastOp.calls[i] = "Recorder.Stop")
    => ~handler[lastOp.h].bIsRecording

\* C6: a Stop or a BeginDestroy on a recording handler whose crash flag
\* is set stops the Recorder and leaves the handler not recording, and deletes
\* and changes no journal entry.
C6_CrashStopKeepsEntry ==
    [][\A h \in Handlers :
          /\ IsStep("Stop", h) \/ IsStep("BeginDestroy", h)
          /\ handler[h].bIsRecording
          /\ handler[h].bCrashDetected
          => /\ meta' = meta
             /\ lastOp'.deleted = {}
             /\ ~handler'[h].bIsRecording
             /\ ~recorder'.active
      ]_vars

\* A Stop with the crash flag set has stopped the Recorder, and the journal
\* entry of the session is still on disk.
C6_Witness ==
    /\ lastOp.name \in {"Stop", "BeginDestroy"}
    /\ lastOp.wasRecording
    /\ lastOp.crashFlag
    /\ lastOp.calls = <<"Recorder.Stop">>
    /\ \E p \in DOMAIN meta : MetaExists(meta, p) /\ meta[p].Status = "RECORDING"

\* C7: a Start on an Idle handler that returns false leaves the handler
\* Idle, writes no journal entry, and deletes no journal entry and no video
\* file.
C7_FailedStartWritesNothing ==
    [][\A h \in Handlers :
          IsStep("Start", h) /\ ~handler[h].bIsRecording /\ ~lastOp'.ok
          => /\ ~handler'[h].bIsRecording
             /\ meta' = meta
             /\ lastOp'.deleted = {}
             /\ lastOp'.scanned = {}
             /\ ExistingFiles(files) \subseteq ExistingFiles(files')
      ]_vars

\* A Start failed because the Recorder refused to start, with a journal entry
\* of an earlier process on disk.
C7_Witness ==
    /\ lastOp.name = "Start"
    /\ ~lastOp.wasRecording
    /\ ~lastOp.ok
    /\ Len(lastOp.calls) > 0
    /\ lastOp.calls[Len(lastOp.calls)] = "Recorder.Start"
    /\ ExistingMeta(meta) # {}
    /\ ~handler[lastOp.h].bIsRecording

\* C8: a Start while the Sentry subsystem is missing or disabled, or
\* while the Recorder subsystem cannot be had, returns false, leaves the
\* handler as it was (Idle stays Idle), and calls neither the Recorder's
\* Start nor its Stop.
C8_StartNeedsSentryAndRecorder ==
    [][\A h \in Handlers :
          IsStep("Start", h) /\ (sentry # "enabled" \/ ~recorderPresent)
          => /\ ~lastOp'.ok
             /\ handler' = handler
             /\ recorder' = recorder
             /\ RecorderCalls(lastOp') = {}
      ]_vars

\* A Start was refused for a disabled Sentry subsystem while some other
\* recording was in progress, which it left running.
C8_Witness ==
    /\ lastOp.name = "Start"
    /\ ~lastOp.wasRecording
    /\ ~lastOp.ok
    /\ sentry = "disabled"
    /\ recorderPresent
    /\ recorder.active

\* C9: in a Start that returns true the Recovery Scanner runs before
\* the journal entry is written and the Retention Manager after it: the
\* scanner reads only journal files that were on disk before the Start, and
\* the entry the Start writes is on disk, as written, when the Start returns.
C9_ScanBeforeJournalWrite ==
    [][\A h \in Handlers :
          IsStep("Start", h) /\ lastOp'.ok
          => LET n == Len(lastOp'.calls)
                 path == handler'[h].CurrentSessionVideoPath
                 MetadataPath == FileKey(MetaPathOf(path))
             IN  /\ n >= 3
                 /\ SubSeq(lastOp'.calls, n - 2, n) =
                       <<"RecoverPreviousCrashVideos",
                         "CreateCrashMetadataFile", "CleanupOldVideos">>
                 /\ lastOp'.scanned = ExistingMeta(meta)
                 /\ Fault("write", MetadataPath) \notin lastOp'.faulted
                    => meta'[MetadataPath] = RecordingEntry(path)
      ]_vars

\* A Start returned true after its scanner consumed a journal file an earlier
\* process had left under the very name of the new session's journal file; the
\* new entry is on disk.
C9_Witness ==
    /\ lastOp.name = "Start"
    /\ lastOp.ok
    /\ LET path == handler[lastOp.h].CurrentSessionVideoPath
       IN  /\ FileKey(MetaPathOf(path)) \in lastOp.scanned
           /\ meta[FileKey(MetaPathOf(path))] = RecordingEntry(path)

\* C10: a Stop on a handler that is not recording changes nothing: the
\* journal, the video files and the handler stay as they are and the Recorder
\* is not called.
C10_StopOnIdleIsNoOp ==
    [][\A h \in Handlers :
          IsStep("Stop", h) /\ ~handler[h].bIsRecording
          => /\ handler' = handler
             /\ meta' = meta
             /\ files' = files
             /\ recorder' = recorder
             /\ lastOp'.calls = << >>
             /\ lastOp'.deleted = {}
      ]_vars

\* A Stop on an Idle handler, with some other recording in progress and a
\* journal entry on disk.
C10_Witness ==
    /\ lastOp.name = "Stop"
    /\ ~lastOp.wasRecording
    /\ recorder.active
    /\ ExistingMeta(meta) # {}
    /\ ~handler[lastOp.h].bIsRecording

\* The journal entries with Status RECORDING on disk.
RecordingEntries(m) ==
    {p \in DOMAIN m : MetaExists(m, p) /\ m[p].Status = "RECORDING"}

\* The RECORDING entries that no Recording handler owns.
StaleEntries(m, hs) ==
    {p \in RecordingEntries(m) :
        \A h \in Handlers :
            hs[h].live /\ hs[h].bIsRecording
            => p # FileKey(MetaPathOf(hs[h].CurrentSessionVideoPath))}

\* Every handler object of the process has been destroyed.
ProcessEnded ==
    /\ lastOp.name = "BeginDestroy"
    /\ \A h \in Handlers : ~handler[h].live

IsScan(h) == IsStep("Start", h) /\ lastOp'.ok

\* The journal files whose entries a scanner run starting in this state
\* reads: those on disk, but for the one whose read fails.
ReadBy(op) ==
    {p \in op.scanned : Fault("read", p) \notin op.faulted}

\* The file was deleted in the step, or its DeleteFile failed.
DeletedUnlessFailed(op, p) ==
    IF Fault("delete", p) \in op.faulted
    THEN FileKey(p) \notin op.deleted
    ELSE FileKey(p) \in op.deleted

\* C12: for a journal entry with Status RECORDING whose VideoPath names
\* an existing file, the Recovery Scanner deletes that file, with content or
\* empty, and the journal entry; a file whose DeleteFile fails stays, and
\* nothing else does.
C12_RecordingEntryAndVideoDeleted ==
    [][\A h \in Handlers :
          IsScan(h)
          => \A p \in ReadBy(lastOp') :
                /\ meta[p].Status = "RECORDING"
                /\ ~IsEmpty(meta[p].VideoPath)
                /\ FileExists(files, meta[p].VideoPath)
                => /\ DeletedUnlessFailed(lastOp', p)
                   /\ DeletedUnlessFailed(lastOp', meta[p].VideoPath)
                   /\ FileKey(meta[p].VideoPath) \in lastOp'.deleted
                      => ~FileExists(files', meta[p].VideoPath)
      ]_vars

\* The scanner read a RECORDING entry and deleted it and the video it named.
C12_Witness ==
    /\ lastOp.name = "Start"
    /\ lastOp.ok
    /\ lastOp.faulted = {}
    /\ \E e \in lastOp.entries :
          /\ e.Status = "RECORDING"
          /\ ~IsEmpty(e.VideoPath)
          /\ FileKey(e.VideoPath) \in lastOp.deleted
          /\ FileKey(MetaPathOf(e.VideoPath)) \in lastOp.deleted

\* C13: for a journal entry with Status CRASH_RECORDED the Recovery
\* Scanner deletes the journal entry whether the crash-recovery artifact has
\* content, is empty or is absent, and deletes the artifact when it is there;
\* a file whose DeleteFile fails stays.
C13_CrashRecordedEntryDeleted ==
    [][\A h \in Handlers :
          IsScan(h)
          => \A p \in ReadBy(lastOp') :
                meta[p].Status = "CRASH_RECORDED"
                => LET Artifact == CrashRecoveryPathOf(meta[p].CrashVideoPath)
                   IN  /\ DeletedUnlessFailed(lastOp', p)
                       /\ FileExists(files, Artifact)
                          => /\ DeletedUnlessFailed(lastOp', Artifact)
                             /\ Artifact \in lastOp'.deleted
                                => ~FileExists(files', Artifact)
      ]_vars

\* The scanner read a CRASH_RECORDED entry whose artifact was gone, and
\* deleted the entry and nothing else.
C13_Witness ==
    /\ lastOp.name = "Start"
    /\ lastOp.ok
    /\ \E e \in lastOp.entries : e.Status = "CRASH_RECORDED"
    /\ lastOp.deleted = {MetaPathOf(FirstVideo)}
    /\ lastOp.faulted = {}
    /\ ~FileExists(files, CrashRecoveryPathOf(FirstVideo))
    /\ FileExists(files, FirstVideo)

\* C14: for a journal entry with Status RECORDING and no video path the
\* Recovery Scanner deletes the journal entry and no video file.
C14_OrphanEntryDeletedAlone ==
    [][\A h \in Handlers :
          IsScan(h)
          => \A p \in ReadBy(lastOp') :
                meta[p].Status = "RECORDING" /\ IsEmpty(meta[p].VideoPath)
                /\ lastOp'.scanned = {p}
                => /\ DeletedUnlessFailed(lastOp', p)
                   /\ lastOp'.deleted \subseteq {p}
                   /\ ExistingFiles(files) \subseteq ExistingFiles(files')
      ]_vars

\* The scanner read an entry without a video path and deleted it; the video
\* named like the journal file and the crash-recovery artifact are still on
\* disk.
C14_Witness ==
    /\ lastOp.name = "Start"
    /\ lastOp.ok
    /\ lastOp.entries = {OrphanEntry}
    /\ lastOp.deleted = {MetaPathOf(FirstVideo)}
    /\ FileExists(files, FirstVideo)
    /\ FileExists(files, CrashRecoveryPathOf(FirstVideo))

\* C15: in a process that started on a clean disk and in which no
\* crash occurred, the Recovery Scanner of every Start finds no journal entry
\* and deletes no journal entry and no video file.
C15_ScannerFindsNothingWithoutCrash ==
    lastOp.name = "Start" /\ lastOp.ok
    => /\ lastOp.scanned = {}
       /\ lastOp.deleted = {}

\* The videos the Retention Manager lists: the .mp4 files under the crash
\* video directory.
Artifacts(f) ==
    {p \in DOMAIN f :
        FileExists(f, p) /\ InCrashVideoDirectory(p) /\ EndsWith(p, ".mp4")}

\* A step in which the Retention Manager ran.
IsPrune(h) ==
    /\ IsStep("Start", h)
    /\ \E i \in 1..Len(lastOp'.calls) : lastOp'.calls[i] = "CleanupOldVideos"

\* The videos whose deletion failed in the step.
FailedDeletes(op) == {f.path : f \in {x \in op.faulted : x.kind = "delete"}}

\* The videos DeleteFile was called on in the step.
Attempted(op) == (op.deleted \cap VideoFiles) \cup FailedDeletes(op)

\* No video of D was written after a video of K.
NotNewer(f, D, K) == \A d \in D, k \in K : f[d].mtime <= f[k].mtime

\* C16: with more than MaxVideosToKeep videos in the directory, pruning
\* deletes exactly count - MaxVideosToKeep of them, none of them written after
\* a video it keeps, and MaxVideosToKeep videos stay, unchanged; it never
\* deletes more than count - MaxVideosToKeep.
C16_PruneDeletesOldestExcess ==
    [][\A h \in Handlers :
          IsPrune(h)
          /\ Cardinality(Artifacts(files)) > handler[h].MaxVideosToKeep
          => LET NumToDelete == Cardinality(Artifacts(files))
                                   - handler[h].MaxVideosToKeep
                 Deleted == lastOp'.deleted
             IN  /\ Cardinality(Deleted) <= NumToDelete
                 /\ Deleted \subseteq Artifacts(files)
                 /\ lastOp'.faulted = {}
                    => /\ Cardinality(Deleted) = NumToDelete
                       /\ Artifacts(files') = Artifacts(files) \ Deleted
                       /\ Cardinality(Artifacts(files')) =
                              handler[h].MaxVideosToKeep
                       /\ NotNewer(files, Deleted, Artifacts(files'))
                       /\ \A k \in Artifacts(files') : files'[k] = files[k]
      ]_vars

\* Pruning deleted the two oldest of three videos and kept the newest.
C16_Witness ==
    /\ lastOp.name = "Start"
    /\ lastOp.ok
    /\ lastOp.faulted = {}
    /\ Cardinality(lastOp.deleted) = 2
    /\ Cardinality(Artifacts(files)) = 1
    /\ handler[lastOp.h].MaxVideosToKeep = 1
    /\ \A k \in Artifacts(files), d \in lastOp.deleted : d.ts < files[k].mtime

\* C17: the pruning inside Start never deletes the file at the video
\* path of the session that Start has just begun.
C17_PruneKeepsSessionVideo ==
    lastOp.name = "Start" /\ lastOp.ok
    => FileKey(handler[lastOp.h].CurrentSessionVideoPath) \notin lastOp.deleted

\* C18: with no more than MaxVideosToKeep videos in the directory,
\* pruning deletes nothing: the videos are the same, unchanged.
C18_PruneWithinLimitDeletesNothing ==
    [][\A h \in Handlers :
          IsPrune(h)
          /\ Cardinality(Artifacts(files)) <= handler[h].MaxVideosToKeep
          => /\ lastOp'.deleted = {}
             /\ lastOp'.faulted = {}
             /\ Artifacts(files') = Artifacts(files)
             /\ \A k \in Artifacts(files) : files'[k] = files[k]
      ]_vars

\* Pruning ran with exactly MaxVideosToKeep videos in the directory and
\* deleted none.
C18_Witness ==
    /\ lastOp.name = "Start"
    /\ lastOp.ok
    /\ lastOp.deleted = {}
    /\ handler[lastOp.h].MaxVideosToKeep = 2
    /\ Cardinality(Artifacts(files)) = 2

\* C19: when a deletion fails during pruning, the Start still returns
\* true, DeleteFile has been called on count - MaxVideosToKeep videos, none of
\* them written after a video that was not tried, the video whose deletion
\* failed is on disk unchanged, and the others that were tried are gone.
C19_PruneGoesOnAfterFailure ==
    [][\A h \in Handlers :
          IsPrune(h) /\ FailedDeletes(lastOp') # {}
          => LET NumToDelete == Cardinality(Artifacts(files))
                                   - handler[h].MaxVideosToKeep
                 Tried == Attempted(lastOp')
             IN  /\ lastOp'.ok
                 /\ handler'[h].bIsRecording
                 /\ Cardinality(Tried) = NumToDelete
                 /\ NotNewer(files, Tried, Artifacts(files) \ Tried)
                 /\ \A p \in FailedDeletes(lastOp') :
                       FileExists(files', p) /\ files'[p] = files[p]
                 /\ Artifacts(files') =
                       Artifacts(files) \ (Tried \ FailedDeletes(lastOp'))
      ]_vars

\* The deletion of the oldest video failed, and a video written after it
\* was deleted all the same.
C19_Witness ==
    /\ lastOp.name = "Start"
    /\ lastOp.ok
    /\ \E p \in FailedDeletes(lastOp), d \in lastOp.deleted :
          /\ FileExists(files, p)
          /\ files[p].mtime = p.ts
          /\ p.ts < d.ts

\* The Recorder was stopped in the step just taken.
RecorderStopped(op) ==
    \E i \in 1..Len(op.calls) : op.calls[i] = "Recorder.Stop"

\* C20: when the file at the Recorder's path is empty or missing after
\* CaptureAndAttachVideo has stopped the Recorder, CaptureAndAttachVideo
\* returns the empty path and adds no attachment to the Sentry scope.
C20_NoAttachmentForEmptyOrMissingVideo ==
    [][\A h \in Handlers :
          /\ IsStep("Capture", h)
          /\ RecorderStopped(lastOp')
          /\ \/ ~FileExists(files', recorder.path)
             \/ files'[FileKey(recorder.path)].size = "empty"
          => /\ IsEmpty(lastOp'.path)
             /\ ~lastOp'.ok
             /\ attachments' = attachments
      ]_vars

\* CaptureAndAttachVideo stopped the Recorder, found a zero-byte file at its
\* path, returned the empty path and attached nothing, with Sentry enabled.
C20_Witness ==
    /\ lastOp.name = "Capture"
    /\ RecorderStopped(lastOp)
    /\ FileExists(files, recorder.path)
    /\ files[FileKey(recorder.path)].size = "empty"
    /\ IsEmpty(lastOp.path)
    /\ attachments = << >>
    /\ sentry = "enabled"

\* C21: CaptureAndAttachVideo returns a non-empty path exactly when the
\* handler was recording, the Recorder was there and active, the file at the
\* Recorder's path exists with content once the Recorder has stopped, and
\* Attach added that path to the Sentry scope; the path returned is that
\* path, and with an empty result the scope has not changed.
C21_CaptureReturnsPathIffAttached ==
    [][\A h \in Handlers :
          IsStep("Capture", h)
          => /\ (~IsEmpty(lastOp'.path))
                <=> (/\ handler[h].bIsRecording
                     /\ recorderPresent
                     /\ recorder.active
                     /\ FileExists(files', recorder.path)
                     /\ files'[FileKey(recorder.path)].size = "data"
                     /\ attachments' = Append(attachments, recorder.path))
             /\ ~IsEmpty(lastOp'.path) => lastOp'.path = recorder.path
             /\ IsEmpty(lastOp'.path) => attachments' = attachments
      ]_vars

\* CaptureAndAttachVideo returned the path of the session's video, which is
\* on disk with content and is the one attachment of the scope.
C21_Witness ==
    /\ lastOp.name = "Capture"
    /\ ~IsEmpty(lastOp.path)
    /\ lastOp.path = handler[lastOp.h].CurrentSessionVideoPath
    /\ FileExists(files, lastOp.path)
    /\ attachments = <<lastOp.path>>

\* C22: AttachVideoToSentry returns false and adds nothing to the Sentry
\* scope when its path is empty, when the Sentry subsystem is missing or
\* disabled, or when no file exists at the path at the time of the call.
C22_AttachFailsFast ==
    [][\A h \in Handlers :
          /\ IsStep("Attach", h)
          /\ \/ IsEmpty(lastOp'.path)
             \/ sentry # "enabled"
             \/ ~FileExists(files, lastOp'.path)
          => /\ ~lastOp'.ok
             /\ attachments' = attachments
      ]_vars

\* AttachVideoToSentry was refused for a path at which no file exists, with
\* the Sentry subsystem enabled and an attachment already in the scope.
C22_Witness ==
    /\ lastOp.name = "Attach"
    /\ ~lastOp.ok
    /\ ~IsEmpty(lastOp.path)
    /\ InCrashVideoDirectory(lastOp.path)
    /\ ~FileExists(files, lastOp.path)
    /\ sentry = "enabled"
    /\ Len(attachments) = 1

\* An operation in which AttachVideoToSentry returned true.
AttachSucceeded(op) == op.name \in {"Attach", "Capture"} /\ op.ok

\* C23: a successful AttachVideoToSentry appends one attachment, the
\* path it was given, to the Sentry scope and leaves those added earlier in
\* place; no other step of any operation changes the scope. So the scope only
\* grows, by one per successful call.
C23_AttachIsAdditive ==
    [][IF AttachSucceeded(lastOp')
       THEN /\ Len(attachments') = Len(attachments) + 1
            /\ SubSeq(attachments', 1, Len(attachments)) = attachments
            /\ attachments'[Len(attachments')] =
                  IF lastOp'.name = "Attach" THEN lastOp'.path
                  ELSE recorder.path
       ELSE attachments' = attachments]_vars

\* A second successful AttachVideoToSentry: the scope holds two attachments.
C23_Witness ==
    /\ lastOp.name = "Attach"
    /\ lastOp.ok
    /\ Len(attachments) = 2
    /\ attachments[2] = lastOp.path

\* y is x where x lies in lo..hi, and else the end of lo..hi nearest to x.
NearestInRange(x, y, lo, hi) ==
    /\ lo <= y /\ y <= hi
    /\ lo <= x /\ x <= hi => y = x
    /\ x < lo => y = lo
    /\ x > hi => y = hi

\* StartRecording was called in the operation.
RecorderStartCalled(op) ==
    \E i \in 1..Len(op.calls) : op.calls[i] = "Recorder.Start"

\* C24: a Start that has passed its tests of the handler, the Sentry
\* subsystem and the Recorder subsystem does not fail for the values of its
\* config: it stores in CurrentConfig, for each of LastSecondsToRecord,
\* TargetFPS and QualityPreset, the value given where that lies in the range
\* and else the nearest end of the range; it calls StartRecording with the
\* stored frame rate and buffer length unless the directory could not be
\* created; and it returns true exactly when the Recorder has started.
C24_StartClampsConfig ==
    [][\A h \in Handlers :
          /\ IsStep("Start", h)
          /\ ~handler[h].bIsRecording
          /\ sentry = "enabled"
          /\ recorderPresent
          => LET Given == lastOp'.Config
                 Stored == handler'[h].CurrentConfig
             IN  /\ NearestInRange(Given.LastSecondsToRecord,
                                   Stored.LastSecondsToRecord,
                                   MinLastSeconds, MaxLastSeconds)
                 /\ NearestInRange(Given.TargetFPS, Stored.TargetFPS,
                                   MinTargetFPS, MaxTargetFPS)
                 /\ NearestInRange(Given.QualityPreset, Stored.QualityPreset,
                                   MinQualityPreset, MaxQualityPreset)
                 /\ RecorderStartCalled(lastOp') <=> dirExists'
                 /\ RecorderStartCalled(lastOp')
                    => /\ lastOp'.args.TargetFPS = Stored.TargetFPS
                       /\ lastOp'.args.LastSecondsToRecord =
                              Stored.LastSecondsToRecord
                 /\ lastOp'.ok <=> (dirExists' /\ recorder'.active)
      ]_vars

\* A Start given a buffer length above, a frame rate below and a quality
\* preset below their ranges returned true, the Recorder running on the ends
\* of the ranges.
C24_Witness ==
    /\ lastOp.name = "Start"
    /\ lastOp.ok
    /\ lastOp.Config.LastSecondsToRecord > MaxLastSeconds
    /\ lastOp.Config.TargetFPS < MinTargetFPS
    /\ lastOp.Config.QualityPreset < MinQualityPreset
    /\ lastOp.args.LastSecondsToRecord = MaxLastSeconds
    /\ lastOp.args.TargetFPS = MinTargetFPS
    /\ handler[lastOp.h].CurrentConfig.QualityPreset = MinQualityPreset
    /\ recorder.active

\* C25: for every quality preset from 0 to 100 the bitrate StartRecording
\* is handed is 2 000 000 + 80 000 * preset: linear and not decreasing in the
\* preset, 2 000 000 at 0 and 10 000 000 at 100.
C25_BitrateLinearInPreset ==
    [][\A h \in Handlers :
          /\ IsStep("Start", h)
          /\ RecorderStartCalled(lastOp')
          /\ lastOp'.Config.QualityPreset \in MinQualityPreset..MaxQualityPreset
          => lastOp'.args.VideoBitrate =
                 MinBitrate
                 + ((MaxBitrate - MinBitrate) \div 100)
                   * lastOp'.Config.QualityPreset
      ]_vars

\* A Start with quality preset 13, whose share of the bitrate span is not a
\* float: the Recorder was handed 3 040 000.
C25_Witness ==
    /\ lastOp.name = "Start"
    /\ lastOp.ok
    /\ lastOp.Config.QualityPreset = 13
    /\ lastOp.args.VideoBitrate = 3040000

\* C26: SetMaxVideosToKeep(n) stores n where n is at least 1 and 1
\* otherwise, and does nothing else: no file and no journal entry is deleted
\* or changed, and the handler's recording state, session path and config, the
\* Recorder and the Sentry scope stay as they are.
C26_SetMaxStoresAtLeastOne ==
    [][\A h \in Handlers :
          IsStep("SetMaxVideosToKeep", h)
          => LET n == lastOp'.MaxVideos
                 Stored == handler'[h].MaxVideosToKeep
             IN  /\ Stored = IF n >= MinVideosToKeep THEN n ELSE MinVideosToKeep
                 /\ Stored >= MinVideosToKeep
                 /\ handler' = [handler EXCEPT ![h].MaxVideosToKeep = Stored]
                 /\ files' = files
                 /\ meta' = meta
                 /\ dirExists' = dirExists
                 /\ recorder' = recorder
                 /\ attachments' = attachments
                 /\ lastOp'.deleted = {}
                 /\ lastOp'.calls = << >>
      ]_vars

\* SetMaxVideosToKeep was given a number below 1 on a recording handler with
\* three videos in the directory: 1 is stored and the three are still there.
C26_Witness ==
    /\ lastOp.name = "SetMaxVideosToKeep"
    /\ lastOp.MaxVideos < MinVideosToKeep
    /\ handler[lastOp.h].MaxVideosToKeep = MinVideosToKeep
    /\ handler[lastOp.h].bIsRecording
    /\ Cardinality(Artifacts(files)) = 3

\* The journal file of the session the handler is in.
OwnEntry(hs, h) == FileKey(MetaPathOf(hs[h].CurrentSessionVideoPath))

\* The video files a journal entry names.
NamedBy(e) ==
    {FileKey(e.VideoPath), FileKey(CrashRecoveryPathOf(e.CrashVideoPath))}
        \cap VideoFiles

\* C27: a journal file the Recovery Scanner cannot read is skipped: the
\* Start still returns true, the file is not deleted and stays on disk with
\* its entry (but where the new session's entry is written to that very
\* file), the videos its entry names are untouched, and every other journal
\* file found is processed and deleted.
C27_UnreadableEntrySkipped ==
    [][\A h \in Handlers :
          IsStep("Start", h)
          => \A f \in {x \in lastOp'.faulted : x.kind = "read"} :
                LET p == f.path
                IN  /\ lastOp'.ok
                    /\ handler'[h].bIsRecording
                    /\ p \notin lastOp'.deleted
                    /\ MetaExists(meta', p)
                    /\ p # OwnEntry(handler', h) => meta'[p] = meta[p]
                    /\ \A v \in NamedBy(meta[p]) :
                          v \notin lastOp'.deleted /\ files'[v] = files[v]
                    /\ \A q \in lastOp'.scanned \ {p} :
                          /\ q \in lastOp'.deleted
                          /\ meta[q] \in lastOp'.entries
                          /\ q # OwnEntry(handler', h) => ~MetaExists(meta', q)
      ]_vars

\* The scanner could not read one of two journal files: that one and the
\* video it names are on disk, the other one and its video are deleted, and
\* the Start returned true.
C27_Witness ==
    /\ lastOp.name = "Start"
    /\ lastOp.ok
    /\ Cardinality(lastOp.scanned) = 2
    /\ \E p \in lastOp.scanned :
          /\ Fault("read", p) \in lastOp.faulted
          /\ p # OwnEntry(handler, lastOp.h)
          /\ MetaExists(meta, p)
          /\ FileExists(files, meta[p].VideoPath)
          /\ \E q \in lastOp.scanned \ {p} :
                /\ q \in lastOp.deleted
                /\ Cardinality(lastOp.deleted) = 2

\* C30: after a Start that returned true, with no read and no deletion
\* failing, no journal entry is on disk but the new session's own: every
\* entry found is removed whatever its Status, among them an entry that a Stop
\* with the crash flag set left earlier in the same process; the session's own
\* entry is there unless its write failed.
C30_OnlyOwnEntryAfterStart ==
    [][\A h \in Handlers :
          /\ IsStep("Start", h)
          /\ lastOp'.ok
          /\ \A f \in lastOp'.faulted : f.kind = "write"
          => LET Own == OwnEntry(handler', h)
             IN  /\ ExistingMeta(meta') \subseteq {Own}
                 /\ ExistingMeta(meta) \subseteq lastOp'.deleted
                 /\ lastOp'.faulted = {}
                    => meta'[Own] =
                          RecordingEntry(handler'[h].CurrentSessionVideoPath)
      ]_vars

\* A Start found two journal entries, one of them of a Status the scanner
\* does not know, and left only the entry of its own session on disk.
C30_Witness ==
    /\ lastOp.name = "Start"
    /\ lastOp.ok
    /\ lastOp.faulted = {}
    /\ Cardinality(lastOp.scanned) = 2
    /\ OtherStatusEntry \in lastOp.entries
    /\ ExistingMeta(meta) = {OwnEntry(handler, lastOp.h)}
    /\ Cardinality(lastOp.deleted \cap MetaFiles) = 2

\* The videos the Recovery Scanner deleted in the operation: those deleted
\* that an entry it read names.
ScannerDeleted(op) ==
    {v \in op.deleted : \E e \in op.entries : v \in NamedBy(e)}

\* C28: the Recovery Scanner never deletes the file at the video path of
\* the session being started, whatever journal entries it finds, one that
\* names that very path included.
C28_ScannerKeepsSessionVideo ==
    lastOp.name = "Start" /\ lastOp.ok
    => FileKey(handler[lastOp.h].CurrentSessionVideoPath)
           \notin ScannerDeleted(lastOp)

\* C29: a Start that returns false leaves the Recorder as it found it;
\* a recording of some other user that was in progress is still in progress.
C29_FailedStartLeavesRecorder ==
    [][\A h \in Handlers :
          IsStep("Start", h) /\ ~lastOp'.ok => recorder' = recorder]_vars

\* C31: BeginDestroy on a handler that is not recording deletes no
\* journal entry and no video file and does not call the Recorder, whatever
\* ran before.
C31_DestroyIdleChangesNothing ==
    [][\A h \in Handlers :
          IsStep("BeginDestroy", h) /\ ~handler[h].bIsRecording
          => /\ meta' = meta
             /\ files' = files
             /\ recorder' = recorder
             /\ lastOp'.deleted = {}
             /\ lastOp'.calls = << >>
      ]_vars

\* C32: between operations a handler that is not recording holds an
\* empty CurrentSessionVideoPath: at first, after a Stop, after a Start that
\* failed.
C32_IdleHasNoSessionPath ==
    \A h \in Handlers :
        handler[h].live /\ ~handler[h].bIsRecording
        => IsEmpty(handler[h].CurrentSessionVideoPath)

\* C33: a session gives the Sentry scope at most one attachment through
\* CaptureAndAttachVideo. A CaptureAndAttachVideo on a recording handler
\* leaves the Recorder stopped; one that finds the Recorder stopped returns
\* the empty path and adds no attachment; and, no other party starting the
\* Recorder, only a Start that returns true sets the Recorder going again.
C33_OneAttachmentPerSession ==
    [][/\ \A h \in Handlers :
             /\ IsStep("Capture", h) /\ handler[h].bIsRecording
                => ~recorder'.active
             /\ IsStep("Capture", h) /\ ~recorder.active
                => /\ IsEmpty(lastOp'.path)
                   /\ attachments' = attachments
       /\ ~recorder.active /\ recorder'.active
          => lastOp'.name = "Start" /\ lastOp'.ok
      ]_vars

\* A second CaptureAndAttachVideo in a session whose first one attached the
\* session's video: it returned the empty path and the scope still holds the
\* one attachment.
C33_Witness ==
    /\ lastOp.name = "Capture"
    /\ lastOp.wasRecording
    /\ ~RecorderStopped(lastOp)
    /\ IsEmpty(lastOp.path)
    /\ attachments = <<handler[lastOp.h].CurrentSessionVideoPath>>
    /\ FileExists(files, attachments[1])
    /\ sentry = "enabled"

====
